---- MODULE Spec2Model ----
(***************************************************************************)
(* Model of jules-scratch/verification/verify_ide.py: main() drives a      *)
(* headless Chromium through Playwright's sync API, checks five fragments  *)
(* of index.html for visibility, takes a screenshot and closes the         *)
(* browser.  The script is run as a process (lines 29-30); the model runs  *)
(* it MaxRuns times in succession against the same fixture and file        *)
(* system.                                                                 *)
(*                                                                         *)
(* Library calls are modelled by their documented Playwright behaviour:    *)
(*  - chromium.launch and page.goto raise Error when the browser cannot    *)
(*    start / the file:// URL cannot be loaded;                            *)
(*  - expect(locator).to_be_visible(timeout=t) polls the page until the    *)
(*    locator is visible or t ms have elapsed since the call, and raises   *)
(*    AssertionError in the second case; without a timeout argument the    *)
(*    default expect timeout (5000 ms) applies;                            *)
(*  - page.screenshot(path=...) writes the file, replacing an old one;     *)
(*  - leaving "with sync_playwright()" stops the Playwright driver, which  *)
(*    terminates the browsers it launched, also when an exception leaves   *)
(*    the block.                                                           *)
(* Time is the number of ms since the page was loaded in the current run.  *)
(***************************************************************************)
EXTENDS Integers, Sequences, FiniteSets, TLC

\* ---- bounds of the model -------------------------------------------------
MaxRuns == 2
PollInterval == 1000
Delays == {0, 4000, 8000, 11000}

\* ---- constants of the script ---------------------------------------------
FailedTestsTimeout == 10000
DefaultExpectTimeout == 5000
ShotPath == "jules-scratch/verification/verification.png"
FailedTests == "Failed Tests"
FirstFour == {"Secure Scribble IDE", "Test Suite Status", "Protocol Editor", "Role Projections"}
Fragments == FirstFour \cup {FailedTests}

\* The statements of the with-block of main(), in program order.
Order ==
  << "launch", "new_page", "abspath", "goto",
     "Secure Scribble IDE", "Test Suite Status", "Protocol Editor",
     "Role Projections", "Failed Tests", "screenshot", "close" >>

VARIABLES
  launchOk,    \* environment: chromium can be launched
  fileExists,  \* environment: index.html exists in the working directory
  present,     \* fixture: the fragments index.html ever renders
  delay,       \* fixture: ms after load at which a present fragment becomes visible
  fs,          \* file system: path |-> content (0 = stale file, r = image written by run r)
  run,         \* number of the current run of the script
  pc,          \* position of the run
  clock,       \* ms since the page was loaded
  deadline,    \* end of the visibility poll in progress
  playwright,  \* "none", "running", "stopped"
  browser,     \* "none", "open", "closed"
  page,        \* "none", "blank", "loaded"
  exc,         \* exception propagating out of main(): "none", "Error", "AssertionError"
  trace,       \* statements of the with-block begun in this run, in order
  passed,      \* fragments whose assertion returned in this run
  evalCount,   \* fragment |-> number of to_be_visible calls in this run
  callAt,      \* fragment |-> clock at its to_be_visible call
  closedBy,    \* how the browser was released in this run: "none", "close", "stop"
  fsAtStart,   \* fs when the current run started
  exitCode,    \* exit status of the current run's process, -1 while it runs
  outcomes     \* exit status and file content of the finished runs

vars ==
  << launchOk, fileExists, present, delay, fs, run, pc, clock, deadline,
     playwright, browser, page, exc, trace, passed, evalCount, callAt,
     closedBy, fsAtStart, exitCode, outcomes >>

env == << launchOk, fileExists, present, delay >>

\* ---- helpers ---------------------------------------------------------------
Min(a, b) == IF a <= b THEN a ELSE b

IndexOf(s) == CHOOSE i \in 1..Len(Order) : Order[i] = s

\* The statement that follows s in the with-block; after the last one the block is left.
NextStepSwapped(s) ==
  IF s = "Role Projections" THEN "screenshot"
  ELSE IF s = "screenshot" THEN "Failed Tests"
  ELSE IF s = "Failed Tests" THEN "close"
  ELSE IF IndexOf(s) = Len(Order) THEN "with_exit" ELSE Order[IndexOf(s) + 1]

NextStep(s) ==
  IF IndexOf(s) = Len(Order) THEN "with_exit" ELSE Order[IndexOf(s) + 1]

\* Where control goes when statement s raises: nothing in main() catches, so
\* the exception leaves the with-block.
HandlerSwallow(s) == NextStep(s)

HandlerFinally(s) == "close"

HandlerRetry(s) == s

Handler(s) == "with_exit"

\* The timeout of the visibility assertion on fragment f.
TimeoutNoExplicit(f) == DefaultExpectTimeout

TimeoutLong(f) == IF f = FailedTests THEN 3 * FailedTestsTimeout ELSE DefaultExpectTimeout

TimeoutImmediate(f) == IF f = FailedTests THEN FailedTestsTimeout ELSE 0

Timeout(f) == IF f = FailedTests THEN FailedTestsTimeout ELSE DefaultExpectTimeout

\* The locator of f is visible at time t.
Visible(f, t) == f \in present /\ delay[f] <= t

\* The poll gives up once the deadline is reached.
TimedOutNever(now, dl) == FALSE

TimedOut(now, dl) == now >= dl

\* The path page.screenshot writes in run r.
ScreenshotPathPerRun(r) == IF r = 1 THEN ShotPath ELSE "jules-scratch/verification/verification-2.png"

ScreenshotPath(r) == ShotPath

\* The file system after content c is written at path p.
WriteFile(f, p, c) == [q \in DOMAIN f \cup {p} |-> IF q = p THEN c ELSE f[q]]

\* The browser when the Playwright driver is stopped.
BrowserAfterStopLeak(b) == b

BrowserAfterStop(b) == IF b = "open" THEN "closed" ELSE b

NoFiles == [q \in {} |-> 0]

\* ---- initial state ---------------------------------------------------------
Init ==
  /\ launchOk \in BOOLEAN
  /\ fileExists \in BOOLEAN
  /\ present \in SUBSET Fragments
  /\ delay \in [Fragments -> Delays]
  /\ \A f \in Fragments \ present : delay[f] = 0
  /\ fs \in {NoFiles, WriteFile(NoFiles, ShotPath, 0)}
  /\ run = 1
  /\ pc = "start"
  /\ clock = 0
  /\ deadline = 0
  /\ playwright = "none"
  /\ browser = "none"
  /\ page = "none"
  /\ exc = "none"
  /\ trace = << >>
  /\ passed = {}
  /\ evalCount = [f \in Fragments |-> 0]
  /\ callAt = [f \in Fragments |-> 0]
  /\ closedBy = "none"
  /\ fsAtStart = fs
  /\ exitCode = -1
  /\ outcomes = << >>

\* ---- actions ---------------------------------------------------------------
\* Statement s completes; control moves to the next statement.
Advance(s) == pc' = NextStep(s) /\ exc' = exc

\* Statement s raises e.
Raise(s, e) == pc' = Handler(s) /\ exc' = e

\* line 5: with sync_playwright() as p
Enter ==
  /\ pc = "start"
  /\ playwright' = "running"
  /\ pc' = "launch"
  /\ UNCHANGED << env, fs, run, clock, deadline, browser, page, exc, trace,
                  passed, evalCount, callAt, closedBy, fsAtStart, exitCode, outcomes >>

\* line 6: browser = p.chromium.launch(headless=True)
Launch ==
  /\ pc = "launch"
  /\ trace' = Append(trace, "launch")
  /\ IF launchOk
       THEN browser' = "open" /\ Advance("launch")
       ELSE browser' = browser /\ Raise("launch", "Error")
  /\ UNCHANGED << env, fs, run, clock, deadline, playwright, page, passed,
                  evalCount, callAt, closedBy, fsAtStart, exitCode, outcomes >>

\* line 7: page = browser.new_page()
NewPage ==
  /\ pc = "new_page"
  /\ trace' = Append(trace, "new_page")
  /\ page' = "blank"
  /\ Advance("new_page")
  /\ UNCHANGED << env, fs, run, clock, deadline, playwright, browser, passed,
                  evalCount, callAt, closedBy, fsAtStart, exitCode, outcomes >>

\* line 10: absolute_path = os.path.abspath('index.html')
AbsPath ==
  /\ pc = "abspath"
  /\ trace' = Append(trace, "abspath")
  /\ Advance("abspath")
  /\ UNCHANGED << env, fs, run, clock, deadline, playwright, browser, page, passed,
                  evalCount, callAt, closedBy, fsAtStart, exitCode, outcomes >>

\* line 13: page.goto(f'file://{absolute_path}')
Goto ==
  /\ pc = "goto"
  /\ trace' = Append(trace, "goto")
  /\ clock' = 0
  /\ IF fileExists
       THEN page' = "loaded" /\ Advance("goto")
       ELSE page' = page /\ Raise("goto", "Error")
  /\ UNCHANGED << env, fs, run, deadline, playwright, browser, passed,
                  evalCount, callAt, closedBy, fsAtStart, exitCode, outcomes >>

\* lines 16-19, 22: expect(locator of f).to_be_visible(...) is called
Expect(f) ==
  /\ pc = f
  /\ trace' = Append(trace, f)
  /\ evalCount' = [evalCount EXCEPT ![f] = @ + 1]
  /\ callAt' = [callAt EXCEPT ![f] = clock]
  /\ deadline' = clock + Timeout(f)
  /\ pc' = "poll"
  /\ UNCHANGED << env, fs, run, clock, playwright, browser, page, exc, passed,
                  closedBy, fsAtStart, exitCode, outcomes >>

\* lines 16-19, 22: one iteration of the visibility poll inside to_be_visible
Poll ==
  /\ pc = "poll"
  /\ LET f == trace[Len(trace)] IN
       IF Visible(f, clock)
         THEN /\ passed' = passed \cup {f}
              /\ Advance(f)
              /\ clock' = clock
         ELSE IF TimedOut(clock, deadline)
           THEN /\ Raise(f, "AssertionError")
                /\ UNCHANGED << passed, clock >>
           ELSE /\ clock' = Min(clock + PollInterval, deadline)
                /\ UNCHANGED << passed, pc, exc >>
  /\ UNCHANGED << env, fs, run, deadline, playwright, browser, page, trace,
                  evalCount, callAt, closedBy, fsAtStart, exitCode, outcomes >>

\* line 25: page.screenshot(path="jules-scratch/verification/verification.png")
Screenshot ==
  /\ pc = "screenshot"
  /\ trace' = Append(trace, "screenshot")
  /\ fs' = WriteFile(fs, ScreenshotPath(run), run)
  /\ Advance("screenshot")
  /\ UNCHANGED << env, run, clock, deadline, playwright, browser, page, passed,
                  evalCount, callAt, closedBy, fsAtStart, exitCode, outcomes >>

\* line 27: browser.close()
Close ==
  /\ pc = "close"
  /\ trace' = Append(trace, "close")
  /\ browser' = IF browser = "open" THEN "closed" ELSE browser
  /\ closedBy' = IF browser = "open" THEN "close" ELSE closedBy
  /\ page' = "none"
  /\ pc' = "with_exit"
  /\ UNCHANGED << env, fs, run, clock, deadline, playwright, exc, passed,
                  evalCount, callAt, fsAtStart, exitCode, outcomes >>

\* line 5: the with-block is left, normally or by an exception
WithExit ==
  /\ pc = "with_exit"
  /\ playwright' = "stopped"
  /\ browser' = BrowserAfterStop(browser)
  /\ closedBy' = IF browser' # browser THEN "stop" ELSE closedBy
  /\ page' = IF browser' # browser THEN "none" ELSE page
  /\ pc' = "exit"
  /\ UNCHANGED << env, fs, run, clock, deadline, exc, trace, passed,
                  evalCount, callAt, fsAtStart, exitCode, outcomes >>

\* lines 29-30: main() returns or its exception reaches the interpreter
Exit ==
  /\ pc = "exit"
  /\ exitCode' = IF exc = "none" THEN 0 ELSE 1
  /\ outcomes' = Append(outcomes, [exit |-> exitCode', files |-> fs])
  /\ pc' = "done"
  /\ UNCHANGED << env, fs, run, clock, deadline, playwright, browser, page, exc,
                  trace, passed, evalCount, callAt, closedBy, fsAtStart >>

\* lines 29-30: the script is run again on the same fixture
Rerun ==
  /\ pc = "done"
  /\ run < MaxRuns
  /\ run' = run + 1
  /\ pc' = "start"
  /\ clock' = 0
  /\ deadline' = 0
  /\ playwright' = "none"
  /\ browser' = "none"
  /\ page' = "none"
  /\ exc' = "none"
  /\ trace' = << >>
  /\ passed' = {}
  /\ evalCount' = [f \in Fragments |-> 0]
  /\ callAt' = [f \in Fragments |-> 0]
  /\ closedBy' = "none"
  /\ fsAtStart' = fs
  /\ exitCode' = -1
  /\ UNCHANGED << env, fs, outcomes >>

Next ==
  \/ Enter
  \/ Launch
  \/ NewPage
  \/ AbsPath
  \/ Goto
  \/ \E f \in Fragments : Expect(f)
  \/ Poll
  \/ Screenshot
  \/ Close
  \/ WithExit
  \/ Exit
  \/ Rerun

Spec == Init /\ [][Next]_vars

\* The interpreter keeps executing the script, and a started run is followed by the next.
FairSpec == Spec /\ WF_vars(Next)

\* ---- properties ------------------------------------------------------------
\* Statement s has been begun in the current run.
Begun(s) == \E i \in 1..Len(trace) : trace[i] = s

\* The statement at which the current run's exception was raised.
FailedAt == trace[Len(trace)]

\* C1: when the browser starts, index.html exists and renders all five
\* fragments, the first four within the default expect timeout and the
\* 'Failed Tests' heading within its 10000 ms timeout, the finished run has
\* passed every assertion, has written the screenshot at
\* jules-scratch/verification/verification.png and exits with status 0.
C1_SuccessPath ==
  ( /\ pc = "done"
    /\ launchOk /\ fileExists
    /\ \A f \in FirstFour : f \in present /\ delay[f] <= DefaultExpectTimeout
    /\ FailedTests \in present /\ delay[FailedTests] <= FailedTestsTimeout )
  => /\ exc = "none"
     /\ passed = Fragments
     /\ Begun("screenshot")
     /\ ShotPath \in DOMAIN fs /\ fs[ShotPath] = run
     /\ exitCode = 0

C1_Witness ==
  /\ pc = "done" /\ launchOk /\ fileExists /\ present = Fragments
  /\ \A f \in FirstFour : delay[f] = 0
  /\ delay[FailedTests] = 8000
  /\ exitCode = 0 /\ ShotPath \in DOMAIN fs /\ fs[ShotPath] = run

\* C2: the screenshot step is reached only after all five assertions passed
\* in the same run; a run on a page that lacks one of the four first-checked
\* fragments ends in failure without the screenshot step, and leaves the
\* file system as it was when the run started.
C2_ScreenshotOnlyOnSuccess ==
  /\ (pc = "screenshot" \/ Begun("screenshot")) => passed = Fragments
  /\ (pc = "done" /\ FirstFour \ present # {})
       => /\ exc # "none" /\ exitCode = 1
          /\ ~Begun("screenshot")
          /\ fs = fsAtStart

C2_Witness ==
  /\ pc = "done" /\ launchOk /\ fileExists
  /\ present = Fragments \ {"Protocol Editor"}
  /\ exc = "AssertionError" /\ FailedAt = "Protocol Editor"
  /\ ShotPath \in DOMAIN fs /\ fs[ShotPath] = 0

\* C3: when the four first assertions passed and the 'Failed Tests' heading
\* becomes visible only later than 10000 ms after its assertion was called,
\* the run fails at exactly the 'Failed Tests' assertion: the four preceding
\* assertions passed, the fifth raised, and no screenshot was taken.
C3_TimeoutAtFifth ==
  ( /\ pc = "done"
    /\ Begun(FailedTests)
    /\ FailedTests \in present
    /\ delay[FailedTests] > callAt[FailedTests] + FailedTestsTimeout )
  => /\ exc = "AssertionError"
     /\ FailedAt = FailedTests
     /\ passed = FirstFour
     /\ ~Begun("screenshot") /\ fs = fsAtStart
     /\ exitCode = 1

C3_Witness ==
  /\ pc = "done" /\ present = Fragments
  /\ \A f \in FirstFour : delay[f] = 0
  /\ delay[FailedTests] = 11000
  /\ exc = "AssertionError" /\ FailedAt = FailedTests /\ passed = FirstFour
  /\ clock = FailedTestsTimeout

\* C4: a failed visibility assertion or an environment error is not caught
\* or retried: the statement that raises is the last statement of the run, the
\* exception reaches the process boundary and the exit status is non-zero;
\* every assertion is evaluated at most once per run.
C4_Step ==
  /\ (pc = "launch" /\ ~launchOk) => exc' = "Error"
  /\ (pc = "goto" /\ ~fileExists) => exc' = "Error"
  /\ (pc = "poll" /\ ~Visible(FailedAt, clock) /\ clock >= deadline)
       => exc' = "AssertionError"
  /\ (exc # "none" /\ run' = run) => (trace' = trace /\ exc' = exc /\ fs' = fs)
  /\ (exc' # "none" /\ pc' = "done") => exitCode' = 1
  /\ \A f \in Fragments : evalCount'[f] <= 1

C4_FailurePropagates == [][C4_Step]_vars

C4_Witness ==
  /\ pc = "done" /\ exc = "Error" /\ launchOk /\ ~fileExists
  /\ FailedAt = "goto" /\ exitCode = 1

\* C5: no run ends with the browser it launched still open.
C5_BrowserReleased ==
  pc \in {"exit", "done"} => browser # "open" /\ (launchOk => browser = "closed")

C5_Witness ==
  /\ pc = "done" /\ exc = "AssertionError"
  /\ browser = "closed" /\ closedBy = "stop"

\* C6: successive runs on the same fixture have the same outcome; when the
\* fixture passes, every run leaves exactly one file, at
\* jules-scratch/verification/verification.png, and a later run replaces the
\* image an earlier run wrote there.
C6_RerunOverwrites ==
  \A r \in 2..Len(outcomes) :
    /\ outcomes[r].exit = outcomes[1].exit
    /\ outcomes[1].exit = 0
         => /\ DOMAIN outcomes[r].files = {ShotPath}
            /\ outcomes[r - 1].files[ShotPath] = r - 1
            /\ outcomes[r].files[ShotPath] = r

C6_Witness ==
  /\ Len(outcomes) = 2 /\ pc = "done"
  /\ outcomes[1].exit = 0 /\ outcomes[2].exit = 0
  /\ outcomes[1].files[ShotPath] = 1 /\ fs[ShotPath] = 2

\* C7: the statements of a run are begun in the fixed program order, each
\* only after every earlier one completed without raising; after a failed
\* assertion no later assertion is evaluated.
C7_StepOrder ==
  /\ Len(trace) <= Len(Order)
  /\ \A i \in 1..Len(trace) : trace[i] = Order[i]
  /\ \A i \in 1..(Len(trace) - 1) : trace[i] \in Fragments => trace[i] \in passed
  /\ (Len(trace) >= 2 => launchOk) /\ (Len(trace) >= 5 => fileExists)
  /\ exc # "none" =>
       /\ pc \in {"with_exit", "exit", "done"}
       /\ \A f \in Fragments : IndexOf(f) > Len(trace) => evalCount[f] = 0

C7_Witness ==
  /\ pc = "done" /\ trace = Order /\ exc = "none"

\* C8: when a visibility assertion raises, browser.close() is not executed
\* in that run.
C8_CloseSkippedOnFailure ==
  exc = "AssertionError" => ~Begun("close") /\ closedBy # "close"

C8_Witness ==
  /\ pc = "done" /\ exc = "AssertionError" /\ FailedAt = "Secure Scribble IDE"
  /\ ~Begun("close")

\* C9 as stated: the four first assertions are immediate checks, so one of
\* them passes only if its fragment is already visible when it is called.
C9_FirstFourImmediate ==
  \A f \in FirstFour : f \in passed => delay[f] <= callAt[f]

\* C9 amended: each of the five assertions is a bounded visibility poll: it
\* passes when its fragment becomes visible within its timeout after the call
\* (10000 ms for 'Failed Tests', the default 5000 ms for the four others) and
\* raises otherwise; a 'Failed Tests' heading visible within its bound lets the
\* run proceed to the screenshot.
C9_BoundedPolls ==
  /\ \A f \in Fragments :
       LET bound == IF f = FailedTests THEN FailedTestsTimeout ELSE DefaultExpectTimeout
           inTime == f \in present /\ delay[f] <= callAt[f] + bound
       IN  (Begun(f) /\ pc \notin {f, "poll"}) =>
             /\ f \in passed <=> inTime
             /\ (exc = "AssertionError" /\ FailedAt = f) <=> ~inTime
  /\ (pc = "poll" /\ clock > deadline) => FALSE
  /\ (FailedTests \in passed /\ pc \notin {"poll"}) => (pc = "screenshot" \/ Begun("screenshot"))

C9_Witness ==
  /\ pc = "done" /\ exc = "none"
  /\ delay["Test Suite Status"] = 4000 /\ callAt["Test Suite Status"] = 0
  /\ delay[FailedTests] = 11000 /\ callAt[FailedTests] = 4000

\* C10: every run terminates, either successfully with the screenshot
\* written or in failure with the screenshot step not reached.
C10_Terminates ==
  /\ [](pc # "done" => <>(pc = "done"))
  /\ [](pc = "done" =>
          \/ exc = "none" /\ exitCode = 0 /\ Begun("screenshot") /\ fs[ShotPath] = run
          \/ exc # "none" /\ exitCode = 1 /\ ~Begun("screenshot") /\ fs = fsAtStart)

C10_Witness ==
  /\ pc = "done" /\ exc = "AssertionError"
  /\ FailedAt \notin present /\ clock = DefaultExpectTimeout

====
